---- MODULE Spec2Model ----
(***************************************************************************)
(* A state-machine model of docs/debug-tools/debug_server.py: the          *)
(* DebugServer object, its WebSocket handler, its HTTP endpoints           *)
(* (/poll, /response, /fetch_file, /v1/chat/completions) and the           *)
(* interactive menu task with download_all_compatible.                     *)
(*                                                                         *)
(* All coroutines run on one asyncio loop, so the code between two awaits  *)
(* that can suspend is one atomic action.  input() runs in a thread and    *)
(* touches no server field: the operator's answers to one menu choice are  *)
(* drawn together at the moment the last of them returns.                  *)
(***************************************************************************)
EXTENDS Integers, Sequences, FiniteSets, TLC

\* ------------------------------------------------------------------ bounds
MaxConns == 2      \* WebSocket connections that may be open at once
MaxQueue == 2      \* commands waiting in command_queue
MaxList  == 2      \* paths in a list_all answer, files in a local directory
MaxIndex == 2      \* largest index / count carried by a stream message
MaxDirs  == 2      \* timestamped save directories created in one run
MaxCount == 3      \* cap of the counters that only ever grow

\* ------------------------------------------------------------- value sets
NoConn == 0
Conns  == 1..MaxConns

Names == <<"a", "b", "c", "d">>
\* A path is the sequence of its components, as pathlib's parts.
PathOf(i) == <<Names[i]>>
NoPath == <<>>                       \* the empty string ''
ListOf(n) == [i \in 1..n |-> PathOf(i)]
DevicePaths == {PathOf(i) : i \in 1..MaxList}
OperatorPath == <<"p">>
DotPath == <<".">>

\* base64 payloads: a decodable string, the empty string, a string that
\* base64.b64decode rejects
DataOk    == "b64"
DataEmpty == ""
DataBad   == "b64?"
B64DecodeFails(d) == d = DataBad

NoDir == [kind |-> "none", n |-> 0]
Dir(kind, n) == [kind |-> kind, n |-> n]

\* ------------------------------------------------------------------ state
VARIABLES
    device_connection,               \* NoConn or the websocket last connected
    device_name,                     \* "unknown" or "device"
    last_poll_time,                  \* "none", "fresh" (< 10 s ago), "stale"
    command_queue,
    stream_backup_dir,
    upload_file_queue,               \* [isdict, paths]: [] at start, then a dict
    upload_in_progress,
    download_in_progress,
    download_file_count,
    download_expected_total,
    compatible_download_in_progress,
    compatible_file_list,            \* [set, paths]: None or a list
    compatible_download_event,       \* "none", "clear", "set"
    ws_running,                      \* connections whose handler is running
    menu_pc,                         \* position of interactive_menu
    file_list,                       \* locals of download_all_compatible
    cd_i,
    success_count,
    fail_count,
    dir_seq,                         \* timestamps handed out so far
    saved_since_start,               \* history: stream files written since
                                     \* the streaming download began
    own_response,                    \* history: a data response for the file
                                     \* being waited for has arrived
    ev                               \* what the last step did (its outputs)

server == <<device_connection, device_name, last_poll_time, command_queue,
            stream_backup_dir, upload_file_queue, upload_in_progress,
            download_in_progress, download_file_count, download_expected_total,
            compatible_download_in_progress, compatible_file_list,
            compatible_download_event>>
transfer == <<stream_backup_dir, upload_file_queue, upload_in_progress,
              download_in_progress, download_file_count,
              download_expected_total, compatible_download_in_progress,
              compatible_file_list, compatible_download_event>>
menu == <<menu_pc, file_list, cd_i, success_count, fail_count>>
history == <<dir_seq, saved_since_start, own_response>>
vars == <<server, ws_running, menu, history, ev>>

NoList == [set |-> FALSE, paths |-> <<>>]
TheList(ps) == [set |-> TRUE, paths |-> ps]
EmptyQueueList == [isdict |-> FALSE, paths |-> {}]
DictOf(ps) == [isdict |-> TRUE, paths |-> ps]

\* The outputs of one step: the handler that ran, the send_command calls it
\* made, the HTTP reply it gave, the files it wrote and what it printed.
NoReply == [kind |-> "none"]
Quiet(op) == [op |-> op, sent |-> <<>>, reply |-> NoReply, wrote |-> <<>>,
              note |-> "", received |-> 0]

Init ==
    /\ device_connection = NoConn
    /\ device_name = "unknown"
    /\ last_poll_time = "none"
    /\ command_queue = <<>>
    /\ stream_backup_dir = NoDir
    /\ upload_file_queue = EmptyQueueList
    /\ upload_in_progress = FALSE
    /\ download_in_progress = FALSE
    /\ download_file_count = 0
    /\ download_expected_total = 0
    /\ compatible_download_in_progress = FALSE
    /\ compatible_file_list = NoList
    /\ compatible_download_event = "none"
    /\ ws_running = {}
    /\ menu_pc = "loop"
    /\ file_list = <<>>
    /\ cd_i = 0
    /\ success_count = 0
    /\ fail_count = 0
    /\ dir_seq = 0
    /\ saved_since_start = 0
    /\ own_response = "none"
    /\ ev = Quiet("init")


\* send_command with the transport test lost: every command is queued.
SendQueueAlways(dc, command) == Append(command_queue, command)

\* ------------------------------------------------------------ send_command
\* send_command(command) called when self.device_connection is dc; ok says
\* whether websocket.send() returns (TRUE) or raises (FALSE).
\* SendQueue is the queue afterwards, SendRecord the record of the call.
SendQueue(dc, command) ==
    IF dc # NoConn THEN command_queue ELSE Append(command_queue, command)


\* send_command returning True whatever websocket.send() did.
SendRecordTrue(dc, command, ok) ==
    IF dc # NoConn
    THEN [cmd |-> command, via |-> "ws", conn |-> dc, ret |-> TRUE]
    ELSE [cmd |-> command, via |-> "http", conn |-> NoConn, ret |-> TRUE]

SendRecord(dc, command, ok) ==
    IF dc # NoConn
    THEN [cmd |-> command, via |-> "ws", conn |-> dc, ret |-> ok]
    ELSE [cmd |-> command, via |-> "http", conn |-> NoConn, ret |-> TRUE]

\* The queue bound of the model: an enqueue needs room.
CanSend(dc) == dc # NoConn \/ Len(command_queue) < MaxQueue

Cmd(name) == [command |-> name]
CmdPath(name, p) == [command |-> name, path |-> p]


\* A handler that goes to its receive loop without the ping.
WsConnectNoPing(c, ok) ==
    /\ menu_pc # "exited"
    /\ c \notin ws_running
    /\ ws_running' = ws_running \cup {c}
    /\ device_connection' = c
    /\ device_name' = "device"
    /\ ev' = Quiet("ws_connect")
    /\ UNCHANGED <<last_poll_time, command_queue, transfer, menu, history>>

\* --------------------------------------------------------- handle_websocket
\* Lines 67-76: a new connection replaces device_connection, then ping.
WsConnect(c, ok) ==
    /\ menu_pc # "exited"
    /\ c \notin ws_running
    /\ ws_running' = ws_running \cup {c}
    /\ device_connection' = c
    /\ device_name' = "device"
    /\ command_queue' = SendQueue(c, Cmd("ping"))
    /\ ev' = [Quiet("ws_connect") EXCEPT
                 !.sent = <<SendRecord(c, Cmd("ping"), ok)>>]
    /\ UNCHANGED <<last_poll_time, transfer, menu, history>>

\* A handler whose finally block would also throw away the queued commands.
WsDisconnectDrops(c) ==
    /\ menu_pc # "exited"
    /\ c \in ws_running
    /\ ws_running' = ws_running \ {c}
    /\ device_connection' = NoConn
    /\ command_queue' = <<>>
    /\ ev' = Quiet("ws_disconnect")
    /\ UNCHANGED <<device_name, last_poll_time, transfer, menu, history>>

\* Lines 94-101: the handler of c ends (closed or error); finally clears.
WsDisconnect(c) ==
    /\ menu_pc # "exited"
    /\ c \in ws_running
    /\ ws_running' = ws_running \ {c}
    /\ device_connection' = NoConn
    /\ ev' = Quiet("ws_disconnect")
    /\ UNCHANGED <<device_name, last_poll_time, command_queue, transfer, menu,
                   history>>

\* ---------------------------------------------------- messages of the device
\* A JSON object posted to /response or sent over the WebSocket: the keys it
\* holds and their values (a value is read only when its key is present).
Msg(keys) == [keys |-> keys, status |-> "ok", stream_complete |-> FALSE,
              total |-> 0, success_count |-> 0, path |-> NoPath,
              data |-> DataEmpty, index |-> 0, paths |-> <<>>, files |-> <<>>]
Has(m, k) == k \in m.keys
\* dict.get(key, default)
Get(m, k, default) == IF Has(m, k) THEN m[k] ELSE default

StreamFile(p, d, i, t) ==
    [Msg({"status", "path", "data", "index", "total"}) EXCEPT
        !.path = p, !.data = d, !.index = i, !.total = t]
SingleFile(p, d) ==
    [Msg({"status", "path", "data"}) EXCEPT !.path = p, !.data = d]
PathList(ps) ==
    [Msg({"status", "paths", "total"}) EXCEPT !.paths = ps, !.total = Len(ps)]
Complete(t, s) ==
    [Msg({"status", "stream_complete", "total", "success_count"}) EXCEPT
        !.stream_complete = TRUE, !.total = t, !.success_count = s]
FileInfo(p, d) == [path |-> p, data |-> d]

Responses ==
    {StreamFile(p, DataOk, i, MaxIndex) : p \in DevicePaths, i \in 1..MaxIndex}
    \cup {StreamFile(PathOf(1), DataEmpty, 1, MaxIndex),
          StreamFile(PathOf(1), DataBad, 1, MaxIndex)}
    \cup {SingleFile(p, DataOk) : p \in DevicePaths}
    \cup {SingleFile(PathOf(1), DataEmpty), SingleFile(PathOf(1), DataBad)}
    \cup {PathList(ListOf(n)) : n \in 0..MaxList}
    \cup {Complete(MaxIndex, s) : s \in 0..MaxIndex}
    \cup {[Msg({"status", "stream_complete", "total"}) EXCEPT
              !.stream_complete = TRUE, !.total = MaxIndex],
          \* a completion that also carries path, data, index and files
          [Complete(MaxIndex, MaxIndex) EXCEPT
              !.keys = @ \cup {"path", "data", "index", "files"},
              !.path = PathOf(1), !.data = DataOk, !.index = 1,
              !.files = <<FileInfo(PathOf(1), DataOk)>>],
          \* stream_complete present but false
          [Msg({"status", "stream_complete", "message"}) EXCEPT
              !.stream_complete = FALSE],
          Msg({"status", "items"}),
          [Msg({"status", "files"}) EXCEPT
              !.files = <<FileInfo(PathOf(1), DataOk),
                          FileInfo(PathOf(2), DataBad)>>],
          Msg({"status", "message"}),
          [Msg({"status", "message"}) EXCEPT !.status = "error"],
          \* an error that carries the fields of a completion and of a file
          [Complete(MaxIndex, MaxIndex) EXCEPT !.status = "error",
              !.keys = @ \cup {"path", "data", "index", "paths", "files"},
              !.path = PathOf(1), !.data = DataOk, !.index = 1,
              !.paths = ListOf(1),
              !.files = <<FileInfo(PathOf(1), DataOk)>>],
          \* no status key at all
          [SingleFile(PathOf(1), DataOk) EXCEPT !.keys = {"path", "data"}]}


\* handle_response without the test of the status.
BranchAnyStatus(m) ==
    IF Get(m, "stream_complete", FALSE) THEN "complete"
    ELSE IF Has(m, "path") /\ Has(m, "data") /\ Has(m, "index") THEN "stream_file"
    ELSE IF Has(m, "paths") /\ Has(m, "total") THEN "path_list"
    ELSE IF Has(m, "items") THEN "items"
    ELSE IF Has(m, "files") THEN "files"
    ELSE IF Has(m, "data") /\ Has(m, "path")
         THEN IF compatible_download_in_progress THEN "compatible_file"
              ELSE "single_file"
    ELSE IF Has(m, "message") THEN "message"
    ELSE "nothing"

\* ---------------------------------------------------------- handle_response
\* The branch of handle_response (lines 105-183) a message takes.
Branch(m) ==
    IF Get(m, "status", "None") # "ok" THEN "error"
    ELSE IF Get(m, "stream_complete", FALSE) THEN "complete"
    ELSE IF Has(m, "path") /\ Has(m, "data") /\ Has(m, "index") THEN "stream_file"
    ELSE IF Has(m, "paths") /\ Has(m, "total") THEN "path_list"
    ELSE IF Has(m, "items") THEN "items"
    ELSE IF Has(m, "files") THEN "files"
    ELSE IF Has(m, "data") /\ Has(m, "path")
         THEN IF compatible_download_in_progress THEN "compatible_file"
              ELSE "single_file"
    ELSE IF Has(m, "message") THEN "message"
    ELSE "nothing"

\* Path(path).name: the last component, '' for the empty path or a bare root.
PathName(p) ==
    IF p = NoPath \/ p[Len(p)] = "/" THEN NoPath ELSE <<p[Len(p)]>>

Write(base, p) == [base |-> base, path |-> p]
Downloads == Dir("downloads", 0)

\* save_stream_file (lines 248-289): whether it reaches the write, and the
\* directory it writes under (created on the first file).
StreamWrites(m) ==
    /\ Get(m, "path", NoPath) # NoPath
    /\ Get(m, "data", DataEmpty) # DataEmpty
    /\ ~B64DecodeFails(m.data)
StreamDir(m) ==
    IF stream_backup_dir = NoDir THEN Dir("stream", dir_seq + 1)
    ELSE stream_backup_dir

\* save_compatible_file (lines 291-317): its return value.  With
\* stream_backup_dir None the path join raises TypeError, which is caught.
CompatibleWrites(m) ==
    /\ Get(m, "path", NoPath) # NoPath
    /\ Get(m, "data", DataEmpty) # DataEmpty
    /\ ~B64DecodeFails(m.data)
    /\ stream_backup_dir # NoDir

\* save_downloaded_file (lines 206-221): open() of downloads/'' and of
\* downloads/.. fails, both being directories.
SingleWrites(m) ==
    /\ ~B64DecodeFails(Get(m, "data", DataEmpty))
    /\ PathName(Get(m, "path", <<"download">>)) \notin {NoPath, <<"..">>}

\* save_all_files (lines 223-246): the files written under the new directory.
RECURSIVE AllFilesWritten(_, _)
AllFilesWritten(base, files) ==
    IF files = <<>> THEN <<>>
    ELSE (IF B64DecodeFails(Head(files).data) THEN <<>>
          ELSE <<Write(base, Head(files).path)>>)
         \o AllFilesWritten(base, Tail(files))

\* The count line 121 reads and line 127 prints at stream_complete.
ReceivedCount == download_file_count

\* Lines 130-134: the verification message printed at stream_complete.
CompleteNote(m) ==
    LET total == Get(m, "total", 0)
        sent  == Get(m, "success_count", total)
    IN  IF ReceivedCount < sent THEN "lost_warning"
        ELSE IF ReceivedCount = sent /\ sent > 0 THEN "verified"
        ELSE "complete"

\* The files a message makes handle_response write.
Written(m) ==
    LET br == Branch(m) IN
    IF br = "stream_file" /\ StreamWrites(m)
        THEN <<Write(StreamDir(m), m.path)>>
    ELSE IF br = "files"
        THEN AllFilesWritten(Dir("backup", dir_seq + 1), m.files)
    ELSE IF br = "compatible_file" /\ CompatibleWrites(m)
        THEN <<Write(stream_backup_dir, m.path)>>
    ELSE IF br = "single_file" /\ SingleWrites(m)
        THEN <<Write(Downloads, PathName(Get(m, "path", <<"download">>)))>>
    ELSE <<>>

\* A message makes a new timestamped directory.
MakesDir(m) ==
    \/ Branch(m) = "stream_file" /\ StreamWrites(m) /\ stream_backup_dir = NoDir
    \/ Branch(m) = "files"

\* The bounds of the model: room for a new directory and in the counters.
Fits(m) ==
    /\ MakesDir(m) => dir_seq < MaxDirs
    /\ (Branch(m) = "stream_file" /\ StreamWrites(m))
           => saved_since_start < MaxCount
    /\ (Branch(m) = "compatible_file" /\ CompatibleWrites(m))
           => download_file_count < MaxCount

\* Lines 144-146 and 151, 277, 310: download_file_count after the message.
CountAfter(m) ==
    LET br == Branch(m) IN
    IF br = "complete" THEN 0
    ELSE IF br = "stream_file" THEN Get(m, "index", 0)
    ELSE IF br = "compatible_file" /\ CompatibleWrites(m)
        THEN download_file_count + 1
    ELSE download_file_count


\* A completion that keeps the stream directory.
DirAfterKept(m) ==
    IF Branch(m) = "stream_file" /\ StreamWrites(m) THEN StreamDir(m)
    ELSE stream_backup_dir

\* Lines 144, 264-267: stream_backup_dir after the message.
DirAfter(m) ==
    LET br == Branch(m) IN
    IF br = "complete" THEN NoDir
    ELSE IF br = "stream_file" /\ StreamWrites(m) THEN StreamDir(m)
    ELSE stream_backup_dir

\* Lines 159-160, 173-174: the event after the message.
EventAfter(m) ==
    IF Branch(m) \in {"path_list", "compatible_file"}
       /\ compatible_download_event # "none"
    THEN "set" ELSE compatible_download_event

\* handle_response(data), shared by the WebSocket handler and /response.
handle_response(m) ==
    LET br == Branch(m) IN
    /\ Fits(m)
    /\ download_in_progress' =
           IF br = "complete" THEN FALSE ELSE download_in_progress
    /\ stream_backup_dir' = DirAfter(m)
    /\ download_file_count' = CountAfter(m)
    /\ download_expected_total' =
           IF br = "complete" THEN 0
           ELSE IF br = "stream_file" THEN Get(m, "total", 0)
           ELSE download_expected_total
    /\ compatible_file_list' =
           IF br = "path_list" THEN TheList(Get(m, "paths", <<>>))
           ELSE compatible_file_list
    /\ compatible_download_event' = EventAfter(m)
    /\ dir_seq' = IF MakesDir(m) THEN dir_seq + 1 ELSE dir_seq
    /\ saved_since_start' =
           IF br = "complete" THEN 0
           ELSE IF br = "stream_file" /\ StreamWrites(m)
               THEN saved_since_start + 1
           ELSE saved_since_start
    /\ own_response' =
           IF /\ br = "compatible_file"
              /\ menu_pc = "file_wait"
              /\ m.path = file_list[cd_i]
           THEN (IF CompatibleWrites(m) THEN "saved"
                 ELSE IF own_response = "saved" THEN "saved" ELSE "arrived")
           ELSE own_response
    /\ UNCHANGED <<upload_file_queue, upload_in_progress,
                   compatible_download_in_progress>>

ResponseEv(op, m) ==
    [Quiet(op) EXCEPT !.wrote = Written(m),
        !.note = IF Branch(m) = "complete" THEN CompleteNote(m)
                 ELSE IF Branch(m) = "stream_file" THEN "stream_file"
                 ELSE IF Branch(m) = "error" THEN "error"
                 ELSE "",
        !.received = IF Branch(m) = "complete" THEN ReceivedCount ELSE 0]

\* Lines 79-92: a message arrives on the open connection c.
WsMessage(c, m) ==
    /\ menu_pc # "exited"
    /\ c \in ws_running
    /\ handle_response(m)
    /\ ev' = ResponseEv("ws_message", m)
    /\ UNCHANGED <<device_connection, device_name, last_poll_time,
                   command_queue, ws_running, menu>>

\* handle_http_response (lines 651-666).
HttpResponse(m) ==
    /\ menu_pc # "exited"
    /\ handle_response(m)
    /\ ev' = ResponseEv("http_response", m)
    /\ UNCHANGED <<device_connection, device_name, last_poll_time,
                   command_queue, ws_running, menu>>

\* --------------------------------------------------------- interactive_menu
\* Lines 426-441: the device counts as connected.
is_connected == device_connection # NoConn \/ last_poll_time = "fresh"

\* Ten seconds pass without a poll.
Tick ==
    /\ menu_pc # "exited"
    /\ last_poll_time = "fresh"
    /\ last_poll_time' = "stale"
    /\ ev' = Quiet("tick")
    /\ UNCHANGED <<device_connection, device_name, command_queue, transfer,
                   ws_running, menu, history>>


\* A loop that shows the prompt without looking at the transfer flags.
MenuLoopNoWait ==
    /\ menu_pc = "loop"
    /\ menu_pc' = IF is_connected THEN "prompt" ELSE "loop"
    /\ ev' = [Quiet("menu_loop") EXCEPT !.note =
                 IF ~is_connected THEN "waiting" ELSE "menu"]
    /\ UNCHANGED <<server, ws_running, file_list, cd_i, success_count,
                   fail_count, history>>

\* Lines 424-478: one pass of the loop up to the prompt.
MenuLoop ==
    /\ menu_pc = "loop"
    /\ menu_pc' = IF is_connected /\ ~download_in_progress
                     /\ ~upload_in_progress
                  THEN "prompt" ELSE "loop"
    /\ ev' = [Quiet("menu_loop") EXCEPT !.note =
                 IF ~is_connected THEN "waiting"
                 ELSE IF download_in_progress THEN "downloading"
                 ELSE IF upload_in_progress THEN "uploading"
                 ELSE "menu"]
    /\ UNCHANGED <<server, ws_running, file_list, cd_i, success_count,
                   fail_count, history>>

\* str.lower() on the answers the operator may give.
Confirms == {"yes", "YES", "no"}
Lower(s) == IF s = "YES" THEN "yes" ELSE s

\* A menu choice that calls send_command(command) once when `sends`, and
\* nothing else; then back to the top of the loop.
MenuSend(sends, command, ok) ==
    /\ menu_pc = "prompt"
    /\ sends => CanSend(device_connection)
    /\ menu_pc' = "loop"
    /\ command_queue' = IF sends THEN SendQueue(device_connection, command)
                        ELSE command_queue
    /\ ev' = [Quiet("menu_choice") EXCEPT
                 !.sent = IF sends
                          THEN <<SendRecord(device_connection, command, ok)>>
                          ELSE <<>>]
    /\ UNCHANGED <<device_connection, device_name, last_poll_time, transfer,
                   ws_running, file_list, cd_i, success_count, fail_count,
                   history>>

\* Lines 486-489.
Choice1(path, ok) ==
    MenuSend(TRUE,
             CmdPath("list", IF path = NoPath THEN DotPath ELSE path), ok)


\* Choice 2 without its "if path:" test.
Choice2Unchecked(path, ok) ==
    MenuSend(TRUE, CmdPath("download", path), ok)

\* Lines 491-498.
Choice2(path, ok) ==
    MenuSend(path # NoPath,
             CmdPath("download", path), ok)

\* Lines 500-513; local: the local file exists.
Choice3(local, path, ok) ==
    MenuSend(local /\ path # NoPath,
             [command |-> "upload", path |-> path, data |-> DataOk], ok)


\* Choice 4 without the test of the confirmation.
Choice4NoConfirm(path, confirm, ok) ==
    MenuSend(path # NoPath, CmdPath("delete", path), ok)

\* Lines 515-521.
Choice4(path, confirm, ok) ==
    MenuSend(path # NoPath /\ Lower(confirm) = "yes",
             CmdPath("delete", path), ok)

\* Lines 523-527.
Choice5(path, ok) ==
    MenuSend(path # NoPath,
             CmdPath("mkdir", path), ok)

\* Lines 529-545.
Choice6(ok) ==
    /\ menu_pc = "prompt"
    /\ CanSend(device_connection)
    /\ menu_pc' = "loop"
    /\ command_queue' = SendQueue(device_connection, Cmd("download_all"))
    /\ ev' = [Quiet("menu_choice") EXCEPT
                 !.sent = <<SendRecord(device_connection,
                                       Cmd("download_all"), ok)>>]
    /\ IF device_connection # NoConn
       THEN UNCHANGED <<stream_backup_dir, download_in_progress,
                        download_file_count, download_expected_total,
                        saved_since_start>>
       ELSE /\ stream_backup_dir' = NoDir
            /\ download_in_progress' = TRUE
            /\ download_file_count' = 0
            /\ download_expected_total' = 0
            /\ saved_since_start' = 0
    /\ UNCHANGED <<device_connection, device_name, last_poll_time,
                   upload_file_queue, upload_in_progress,
                   compatible_download_in_progress, compatible_file_list,
                   compatible_download_event, ws_running, file_list, cd_i,
                   success_count, fail_count, dir_seq, own_response>>

\* Lines 553-602; dir: -1 when local_dir is no directory, else the number of
\* files os.walk finds in it.
LocalDirs == -1..MaxList
\* A choice 8 that would raise the flag in either mode and leave the queue
\* as it was.
Choice8FlagOnly(dir, confirm, ok) ==
    LET go    == dir >= 0 /\ Lower(confirm) = "yes"
        files == [i \in 1..dir |-> FileInfo(PathOf(i), DataOk)]
        paths == [i \in 1..dir |-> PathOf(i)]
        command ==
            IF device_connection # NoConn
            THEN [command |-> "upload_all", files |-> files]
            ELSE [command |-> "upload_list", paths |-> paths, total |-> dir]
    IN
    /\ menu_pc = "prompt"
    /\ go => CanSend(device_connection)
    /\ menu_pc' = "loop"
    /\ command_queue' = IF go THEN SendQueue(device_connection, command)
                        ELSE command_queue
    /\ ev' = [Quiet("menu_choice") EXCEPT
                 !.sent = IF go
                          THEN <<SendRecord(device_connection, command, ok)>>
                          ELSE <<>>]
    /\ upload_in_progress' = (upload_in_progress \/ go)
    /\ UNCHANGED <<upload_file_queue, device_connection, device_name,
                   last_poll_time, stream_backup_dir, download_in_progress,
                   download_file_count, download_expected_total,
                   compatible_download_in_progress, compatible_file_list,
                   compatible_download_event, ws_running, file_list, cd_i,
                   success_count, fail_count, history>>

Choice8(dir, confirm, ok) ==
    LET go    == dir >= 0 /\ Lower(confirm) = "yes"
        files == [i \in 1..dir |-> FileInfo(PathOf(i), DataOk)]
        paths == [i \in 1..dir |-> PathOf(i)]
        command ==
            IF device_connection # NoConn
            THEN [command |-> "upload_all", files |-> files]
            ELSE [command |-> "upload_list", paths |-> paths, total |-> dir]
    IN
    /\ menu_pc = "prompt"
    /\ go => CanSend(device_connection)
    /\ menu_pc' = "loop"
    /\ command_queue' = IF go THEN SendQueue(device_connection, command)
                        ELSE command_queue
    /\ ev' = [Quiet("menu_choice") EXCEPT
                 !.sent = IF go
                          THEN <<SendRecord(device_connection, command, ok)>>
                          ELSE <<>>]
    /\ IF go /\ device_connection = NoConn
       THEN /\ upload_file_queue' = DictOf({PathOf(i) : i \in 1..dir})
            /\ upload_in_progress' = TRUE
       ELSE UNCHANGED <<upload_file_queue, upload_in_progress>>
    /\ UNCHANGED <<device_connection, device_name, last_poll_time,
                   stream_backup_dir, download_in_progress,
                   download_file_count, download_expected_total,
                   compatible_download_in_progress, compatible_file_list,
                   compatible_download_event, ws_running, file_list, cd_i,
                   success_count, fail_count, history>>

\* Lines 604-610.
Choice9(ok) ==
    MenuSend(device_connection # NoConn,
             Cmd("ping"), ok)

\* Lines 612-614: the loop ends, and the servers with it.
Choice0 ==
    /\ menu_pc = "prompt"
    /\ menu_pc' = "exited"
    /\ ev' = Quiet("menu_exit")
    /\ UNCHANGED <<server, ws_running, file_list, cd_i, success_count,
                   fail_count, history>>

\* Lines 480-484 and the end of the if chain: EOF, or no known choice.
ChoiceNone ==
    /\ menu_pc = "prompt"
    /\ menu_pc' = "loop"
    /\ ev' = Quiet("menu_choice")
    /\ UNCHANGED <<server, ws_running, file_list, cd_i, success_count,
                   fail_count, history>>


\* A finally block that leaves the in-progress flag as it is.
CompatFinallyKeepsFlag ==
    /\ UNCHANGED compatible_download_in_progress
    /\ compatible_file_list' = NoList
    /\ compatible_download_event' = "none"
    /\ stream_backup_dir' = NoDir
    /\ menu_pc' = "loop"

\* --------------------------------------------------- download_all_compatible
\* Lines 391-395: the finally block.
CompatFinally ==
    /\ compatible_download_in_progress' = FALSE
    /\ compatible_file_list' = NoList
    /\ compatible_download_event' = "none"
    /\ stream_backup_dir' = NoDir
    /\ menu_pc' = "loop"

\* Choice 7, lines 547-551 and 323-341: reset, new directory, send list_all,
\* wait for the event.
Choice7(ok) ==
    /\ menu_pc = "prompt"
    /\ CanSend(device_connection)
    /\ dir_seq < MaxDirs
    /\ compatible_download_in_progress' = TRUE
    /\ compatible_file_list' = NoList
    /\ compatible_download_event' = "clear"
    /\ download_file_count' = 0
    /\ dir_seq' = dir_seq + 1
    /\ stream_backup_dir' = Dir("compatible", dir_seq + 1)
    /\ command_queue' = SendQueue(device_connection, Cmd("list_all"))
    /\ menu_pc' = "list_wait"
    /\ file_list' = <<>>
    /\ cd_i' = 0
    /\ success_count' = 0
    /\ fail_count' = 0
    /\ own_response' = "none"
    /\ ev' = [Quiet("menu_choice") EXCEPT
                 !.sent = <<SendRecord(device_connection, Cmd("list_all"),
                                       ok)>>]
    /\ UNCHANGED <<device_connection, device_name, last_poll_time,
                   upload_file_queue, upload_in_progress, download_in_progress,
                   download_expected_total, ws_running, saved_since_start>>

\* Lines 364-369: the next iteration of the loop sends file number i.
CompatRequest(i, path, succ, fail, ok) ==
    /\ CanSend(device_connection)
    /\ compatible_download_event' = "clear"
    /\ command_queue' = SendQueue(device_connection,
                                  CmdPath("download", path))
    /\ cd_i' = i
    /\ success_count' = succ
    /\ fail_count' = fail
    /\ own_response' = "none"
    /\ menu_pc' = "file_wait"
    /\ ev' = [Quiet("compatible_request") EXCEPT
                 !.sent = <<SendRecord(device_connection,
                                       CmdPath("download", path),
                                       ok)>>]
    /\ UNCHANGED <<compatible_download_in_progress, compatible_file_list,
                   stream_backup_dir>>

\* Lines 341-344: the 30 s wait for the list runs out.
CompatListTimeout ==
    /\ menu_pc = "list_wait"
    /\ compatible_download_event = "clear"
    /\ CompatFinally
    /\ ev' = [Quiet("compatible_end") EXCEPT !.note = "list_timeout"]
    /\ UNCHANGED <<device_connection, device_name, last_poll_time,
                   command_queue, upload_file_queue, upload_in_progress,
                   download_in_progress, download_file_count,
                   download_expected_total, ws_running, file_list, cd_i,
                   success_count, fail_count, history>>

\* Lines 346-348: the event was set but the list is None or empty.
CompatNoList ==
    /\ menu_pc = "list_wait"
    /\ compatible_download_event = "set"
    /\ compatible_file_list.paths = <<>>
    /\ CompatFinally
    /\ ev' = [Quiet("compatible_end") EXCEPT !.note = "no_list"]
    /\ UNCHANGED <<device_connection, device_name, last_poll_time,
                   command_queue, upload_file_queue, upload_in_progress,
                   download_in_progress, download_file_count,
                   download_expected_total, ws_running, file_list, cd_i,
                   success_count, fail_count, history>>

\* A "paths" value that is no list but a JSON number: it is truthy and len()
\* of it raises TypeError.  It is written as a list holding one marker.
NotAList == <<<<"#number">>>>
NumberPaths ==
    [Msg({"status", "paths", "total"}) EXCEPT !.paths = NotAList, !.total = 1]

\* Lines 350-351 and 386-395: len(file_list) raises, the except branch prints
\* the error, the finally block runs.
CompatListError ==
    /\ menu_pc = "list_wait"
    /\ compatible_download_event = "set"
    /\ compatible_file_list.paths = NotAList
    /\ CompatFinally
    /\ ev' = [Quiet("compatible_end") EXCEPT !.note = "exception"]
    /\ UNCHANGED <<device_connection, device_name, last_poll_time,
                   command_queue, upload_file_queue, upload_in_progress,
                   download_in_progress, download_file_count,
                   download_expected_total, ws_running, file_list, cd_i,
                   success_count, fail_count, history>>

\* Lines 350-369: the list is there; the first download command goes out.
CompatListReady(ok) ==
    /\ menu_pc = "list_wait"
    /\ compatible_download_event = "set"
    /\ compatible_file_list.paths # <<>>
    /\ compatible_file_list.paths # NotAList
    /\ file_list' = compatible_file_list.paths
    /\ download_expected_total' = Len(compatible_file_list.paths)
    /\ CompatRequest(1, compatible_file_list.paths[1], 0, 0, ok)
    /\ UNCHANGED <<device_connection, device_name, last_poll_time,
                   upload_file_queue, upload_in_progress, download_in_progress,
                   download_file_count, ws_running, dir_seq,
                   saved_since_start>>

\* Lines 372-384: the wait for file cd_i ends, by the event (timeout FALSE)
\* or by the 60 s limit; then the next file, or the tally and finally.
CompatFileDone(timeout, ok) ==
    LET succ == IF timeout THEN success_count ELSE success_count + 1
        fail == IF timeout THEN fail_count + 1 ELSE fail_count
    IN
    /\ menu_pc = "file_wait"
    /\ compatible_download_event = IF timeout THEN "clear" ELSE "set"
    /\ IF cd_i < Len(file_list)
       THEN /\ CompatRequest(cd_i + 1, file_list[cd_i + 1], succ, fail, ok)
            /\ UNCHANGED <<file_list>>
       ELSE /\ CompatFinally
            /\ success_count' = succ
            /\ fail_count' = fail
            /\ ev' = [Quiet("compatible_end") EXCEPT !.note = "tally"]
            /\ UNCHANGED <<command_queue, file_list, cd_i, own_response>>
    /\ UNCHANGED <<device_connection, device_name, last_poll_time,
                   upload_file_queue, upload_in_progress, download_in_progress,
                   download_file_count, download_expected_total, ws_running,
                   dir_seq, saved_since_start>>


\* The completion test without the look at the dictionary.
UploadFinishedEarly ==
    upload_in_progress /\ upload_file_queue.isdict

\* ------------------------------------------------------------ HTTP endpoints
\* handle_http_poll (lines 624-649).
UploadFinished ==
    upload_in_progress /\ upload_file_queue.isdict
    /\ upload_file_queue.paths = {}


\* command_queue.pop() in place of pop(0): the newest command goes first.
PoppedLast == command_queue[Len(command_queue)]

\* command_queue.pop(0): the command handed out and the queue left.
Popped == Head(command_queue)
AfterPop == Tail(command_queue)

HttpPoll ==
    /\ menu_pc # "exited"
    /\ last_poll_time' = "fresh"
    /\ device_name' = "device"
    /\ IF UploadFinished
       THEN /\ upload_in_progress' = FALSE
            /\ ev' = [Quiet("poll") EXCEPT !.reply =
                         [kind |-> "command", body |-> Cmd("upload_complete")]]
            /\ UNCHANGED command_queue
       ELSE IF command_queue # <<>>
       THEN /\ command_queue' = AfterPop
            /\ ev' = [Quiet("poll") EXCEPT !.reply =
                         [kind |-> "command", body |-> Popped]]
            /\ UNCHANGED upload_in_progress
       ELSE /\ ev' = [Quiet("poll") EXCEPT !.reply =
                         [kind |-> "command", body |-> Cmd("none")]]
            /\ UNCHANGED <<command_queue, upload_in_progress>>
    /\ UNCHANGED <<device_connection, stream_backup_dir, upload_file_queue,
                   download_in_progress, download_file_count,
                   download_expected_total, compatible_download_in_progress,
                   compatible_file_list, compatible_download_event,
                   ws_running, menu, history>>


\* /fetch_file reading the dictionary with [] instead of pop().
HttpFetchFileKeeps(path) ==
    /\ menu_pc # "exited"
    /\ IF path = NoPath \/ ~upload_file_queue.isdict
       THEN ev' = [Quiet("fetch_file") EXCEPT
                      !.reply = [kind |-> "error", status |-> 400]]
       ELSE IF path \in upload_file_queue.paths
       THEN ev' = [Quiet("fetch_file") EXCEPT
                      !.reply = [kind |-> "file", status |-> 200,
                                 path |-> path,
                                 remaining |->
                                     Cardinality(upload_file_queue.paths)]]
       ELSE ev' = [Quiet("fetch_file") EXCEPT
                      !.reply = [kind |-> "error", status |-> 404]]
    /\ UNCHANGED <<server, ws_running, menu, history>>

\* handle_http_fetch_file (lines 698-726).
HttpFetchFile(path) ==
    /\ menu_pc # "exited"
    /\ IF path = NoPath \/ ~upload_file_queue.isdict
       THEN /\ ev' = [Quiet("fetch_file") EXCEPT !.reply = [kind |-> "error", status |-> 400]]
            /\ UNCHANGED upload_file_queue
       ELSE IF path \in upload_file_queue.paths
       THEN /\ upload_file_queue' = DictOf(upload_file_queue.paths \ {path})
            /\ ev' = [Quiet("fetch_file") EXCEPT !.reply = [kind |-> "file", status |-> 200,
                                    path |-> path,
                                    remaining |->
                                        Cardinality(upload_file_queue'.paths)]]
       ELSE /\ ev' = [Quiet("fetch_file") EXCEPT !.reply = [kind |-> "error", status |-> 404]]
            /\ UNCHANGED upload_file_queue
    /\ UNCHANGED <<device_connection, device_name, last_poll_time,
                   command_queue, stream_backup_dir, upload_in_progress,
                   download_in_progress, download_file_count,
                   download_expected_total, compatible_download_in_progress,
                   compatible_file_list, compatible_download_event,
                   ws_running, menu, history>>

\* handle_openai_proxy (lines 728-761) for POST /v1/chat/completions.  The
\* body is a JSON object with or without "model", JSON that is no object
\* (openai_data.get raises after the command went out), or no JSON at all.
Bodies == {"object_model", "object", "array", "invalid"}

\* A stub that never echoes the request's model.
ProxyReplyNoEcho(body) ==
    IF body \in {"object_model", "object"}
    THEN [kind |-> "completion", status |-> 200, id |-> "proxy-capture",
          model |-> "unknown", content |-> "", finish_reason |-> "stop"]
    ELSE [kind |-> "error", status |-> 500]

ProxyReply(body) ==
    IF body \in {"object_model", "object"}
    THEN [kind |-> "completion", status |-> 200, id |-> "proxy-capture",
          model |-> IF body = "object_model" THEN "m" ELSE "unknown",
          content |-> "", finish_reason |-> "stop"]
    ELSE [kind |-> "error", status |-> 500]
ProxyForwards(body) == body # "invalid"

OpenAIProxy(body, ok) ==
    LET command == [command |-> "openai_capture", request |-> body] IN
    /\ menu_pc # "exited"
    /\ ProxyForwards(body) => CanSend(device_connection)
    /\ command_queue' = IF ProxyForwards(body)
                        THEN SendQueue(device_connection, command)
                        ELSE command_queue
    /\ ev' = [Quiet("openai_proxy") EXCEPT
                 !.reply = ProxyReply(body),
                 !.sent = IF ProxyForwards(body)
                          THEN <<SendRecord(device_connection, command, ok)>>
                          ELSE <<>>]
    /\ UNCHANGED <<device_connection, device_name, last_poll_time, transfer,
                   ws_running, menu, history>>

\* ------------------------------------------------------ next-state relations
\* The handlers, grouped; the device's messages are drawn from msgs.
WsLink(conns) ==
    \/ \E c \in conns, ok \in BOOLEAN : WsConnect(c, ok)
    \/ \E c \in conns : WsDisconnect(c)

WsIn(msgs) == \E c \in Conns, m \in msgs : WsMessage(c, m)

HttpIn(msgs) == \E m \in msgs : HttpResponse(m)

OperatorPaths == {NoPath, OperatorPath}

MenuSimple ==
    \/ MenuLoop
    \/ \E path \in OperatorPaths, ok \in BOOLEAN : Choice1(path, ok)
    \/ \E path \in OperatorPaths, ok \in BOOLEAN : Choice2(path, ok)
    \/ \E local \in BOOLEAN, path \in OperatorPaths, ok \in BOOLEAN :
           Choice3(local, path, ok)
    \/ \E path \in OperatorPaths, confirm \in Confirms, ok \in BOOLEAN :
           Choice4(path, confirm, ok)
    \/ \E path \in OperatorPaths, ok \in BOOLEAN : Choice5(path, ok)
    \/ \E ok \in BOOLEAN : Choice9(ok)
    \/ Choice0
    \/ ChoiceNone

MenuBulk ==
    \/ \E ok \in BOOLEAN : Choice6(ok)
    \/ \E dir \in LocalDirs, confirm \in Confirms, ok \in BOOLEAN :
           Choice8(dir, confirm, ok)

MenuCompat ==
    \/ \E ok \in BOOLEAN : Choice7(ok)
    \/ CompatListTimeout
    \/ CompatNoList
    \/ CompatListError
    \/ \E ok \in BOOLEAN : CompatListReady(ok)
    \/ \E timeout \in BOOLEAN, ok \in BOOLEAN : CompatFileDone(timeout, ok)

Fetch == \E path \in DevicePaths \cup {NoPath} : HttpFetchFile(path)

Proxy == \E body \in Bodies, ok \in BOOLEAN : OpenAIProxy(body, ok)

\* The answers a compatibility download expects.
CompatMsgs ==
    {PathList(ListOf(n)) : n \in 0..MaxList}
    \cup {SingleFile(p, DataOk) : p \in DevicePaths}
    \cup {NumberPaths}

\* The operator at the menu and one device, over WebSocket or HTTP polling:
\* every menu choice, the proxy, /poll, /fetch_file, and the completion of a
\* streaming download.  The compatibility download gets no answer here.
Next ==
    \/ WsLink({1})
    \/ HttpIn({Complete(MaxIndex, MaxIndex)})
    \/ MenuSimple
    \/ MenuBulk
    \/ \E ok \in BOOLEAN : Choice7(ok)
    \/ CompatListTimeout
    \/ HttpPoll
    \/ Fetch
    \/ Proxy
    \/ Tick

Spec == Init /\ [][Next]_vars

\* Several WebSocket connections at once, with the menu's ping.
StatusMsgs ==
    {Msg({"status", "message"}),
     [Msg({"status", "message"}) EXCEPT !.status = "error"],
     SingleFile(PathOf(1), DataOk)}

NextWs ==
    \/ WsLink(Conns)
    \/ WsIn(StatusMsgs)
    \/ MenuLoop
    \/ \E path \in OperatorPaths, ok \in BOOLEAN : Choice1(path, ok)
    \/ \E ok \in BOOLEAN : Choice9(ok)
    \/ HttpPoll

SpecWs == Init /\ [][NextWs]_vars

\* Streaming: every message of the device, and the two menu choices that set
\* stream_backup_dir.
NextStream ==
    \/ WsLink({1})
    \/ HttpIn(Responses)
    \/ MenuLoop
    \/ \E ok \in BOOLEAN : Choice6(ok)
    \/ \E ok \in BOOLEAN : Choice7(ok)
    \/ CompatListTimeout
    \/ HttpPoll

SpecStream == Init /\ [][NextStream]_vars

\* The compatibility download with a device that answers, late or twice.
NextCompat ==
    \/ WsLink({1})
    \/ HttpIn(CompatMsgs)
    \/ MenuLoop
    \/ MenuCompat
    \/ HttpPoll

SpecCompat == Init /\ [][NextCompat]_vars

\* A device that polls and answers what it is handed.  Its answer to
\* download_all is the closing stream_complete or, when it cannot serve the
\* command, a response with status "error"; other commands are answered with
\* status "ok".  Weak fairness: the menu loop's sleeps end, the device keeps
\* polling, fetches the files of an upload_list, and the device that answers
\* with "error" keeps doing so.
ErrorAnswer == [Msg({"status", "message"}) EXCEPT !.status = "error"]
DeviceAnswers ==
    {Msg({"status", "message"}), ErrorAnswer, Complete(MaxIndex, MaxIndex)}

\* The device fetches a file it was told to fetch (its answer to upload_list).
FetchQueued == \E path \in upload_file_queue.paths : HttpFetchFile(path)

NextLive ==
    \/ MenuLoop
    \/ MenuBulk
    \/ ChoiceNone
    \/ HttpPoll
    \/ HttpIn(DeviceAnswers)
    \/ Fetch

SpecLive ==
    /\ Init /\ [][NextLive]_vars
    /\ WF_vars(MenuLoop)
    /\ WF_vars(HttpPoll)
    /\ WF_vars(FetchQueued)
    /\ WF_vars(HttpIn({ErrorAnswer}))

\* ================================================================== claims
CompleteNotes == {"lost_warning", "verified", "complete"}
YesAnswers == {"yes", "YES"}
Destructive == {"delete", "upload_all", "upload_list"}

\* C1: device_connection is None exactly when no WebSocket handler is
\* running, and while a connection is open it refers to an open connection.
C1_SingleSession ==
    /\ (device_connection = NoConn) <=> (ws_running = {})
    /\ ws_running # {} => device_connection \in ws_running

\* C2: send_command uses exactly one transport: with device_connection set
\* the command goes to that WebSocket and command_queue is unchanged; with
\* device_connection None it is appended to the tail of command_queue and
\* True is returned.  Nothing else makes the queue grow.
C2_SendRouting ==
    [][/\ \A k \in 1..Len(ev'.sent) :
              LET r == ev'.sent[k] IN
              IF device_connection' # NoConn
              THEN /\ r.via = "ws"
                   /\ r.conn = device_connection'
                   /\ command_queue' = command_queue
              ELSE /\ r.via = "http"
                   /\ r.ret
                   /\ command_queue' = Append(command_queue, r.cmd)
       /\ ev'.sent = <<>> => Len(command_queue') <= Len(command_queue)
      ]_vars

\* A command was queued behind a different one.
C2_Witness ==
    /\ Len(ev.sent) = 1
    /\ ev.sent[1].via = "http"
    /\ Len(command_queue) = 2
    /\ command_queue[2] = ev.sent[1].cmd
    /\ command_queue[1] # command_queue[2]

\* C3: /poll hands out the queued commands in the order they were queued,
\* each once and one per poll: commands enter at the tail, a poll answers
\* the head and removes it; a poll that finds the queue empty and no finished
\* upload answers "none" and changes nothing but last_poll_time and the
\* device name.
C3_PollFifo ==
    [][/\ ev'.op = "poll" =>
              IF /\ upload_in_progress
                 /\ upload_file_queue.isdict
                 /\ upload_file_queue.paths = {}
              THEN command_queue' = command_queue
              ELSE IF command_queue # <<>>
              THEN /\ ev'.reply.body = command_queue[1]
                   /\ command_queue' =
                          SubSeq(command_queue, 2, Len(command_queue))
              ELSE /\ ev'.reply.body = Cmd("none")
                   /\ UNCHANGED <<device_connection, command_queue, transfer,
                                  ws_running, menu>>
       /\ ev'.op # "poll" =>
              \/ command_queue' = command_queue
              \/ /\ Len(ev'.sent) = 1
                 /\ command_queue' = Append(command_queue, ev'.sent[1].cmd)
      ]_vars

\* A poll handed out the first of two different queued commands.
C3_Witness ==
    /\ ev.op = "poll"
    /\ ev.reply.body.command \notin {"none", "upload_complete"}
    /\ Len(command_queue) = 1
    /\ command_queue[1] # ev.reply.body

\* C4: the compatibility download sends list_all first and no download
\* command before the list is there; then one download per listed path, in
\* list order, each only after a data response for the previous path has
\* arrived or its wait has timed out; a list timeout sends no download.
C4_TwoPhase ==
    [][/\ (menu_pc = "prompt" /\ menu_pc' = "list_wait")
              => (Len(ev'.sent) = 1 /\ ev'.sent[1].cmd = Cmd("list_all"))
       /\ \A k \in 1..Len(ev'.sent) :
              ev'.sent[k].cmd.command = "download" =>
                  /\ compatible_file_list.set
                  /\ file_list' = IF cd_i = 0 THEN compatible_file_list.paths
                                  ELSE file_list
                  /\ cd_i' = cd_i + 1
                  /\ cd_i' <= Len(file_list')
                  /\ ev'.sent[k].cmd.path = file_list'[cd_i']
                  /\ cd_i >= 1 => \/ own_response # "none"
                                  \/ compatible_download_event = "clear"
       /\ ev'.note = "list_timeout" => (ev'.sent = <<>> /\ cd_i = 0)
       /\ ev'.note = "tally" => cd_i = Len(file_list)
      ]_vars

\* C5: from the first stream file saved until the next stream_complete,
\* stream_backup_dir does not change and every stream file is written
\* under it.
C5_OneStreamDir ==
    [][(stream_backup_dir.kind = "stream" /\ ev'.note \notin CompleteNotes)
          => /\ stream_backup_dir' = stream_backup_dir
             /\ ev'.note = "stream_file" =>
                    \A k \in 1..Len(ev'.wrote) :
                        ev'.wrote[k].base = stream_backup_dir
      ]_vars

\* C6 as stated: every POST with a JSON body passes one openai_capture
\* command carrying the body to send_command, answers with the stub
\* completion (model echoed or "unknown"), and leaves the transfer state
\* unchanged.
RequestModel(body) == IF body = "object_model" THEN "m" ELSE "unknown"
CaptureSent(body) ==
    /\ Len(ev'.sent) = 1
    /\ ev'.sent[1].cmd = [command |-> "openai_capture", request |-> body]
StubReply(body) ==
    /\ ev'.reply.kind = "completion"
    /\ ev'.reply.id = "proxy-capture"
    /\ ev'.reply.content = ""
    /\ ev'.reply.finish_reason = "stop"
    /\ ev'.reply.model = RequestModel(body)

C6_AnyJsonBody ==
    [][\A body \in Bodies \ {"invalid"}, ok \in BOOLEAN :
           OpenAIProxy(body, ok) =>
               CaptureSent(body) /\ StubReply(body) /\ UNCHANGED transfer
      ]_vars

\* C6 amended: a POST with a JSON object body passes one openai_capture
\* command carrying it and gets the stub completion; JSON that is no object
\* is passed on too but answered with status 500; no body changes the
\* transfer state.
C6_CaptureOnly ==
    [][\A body \in Bodies, ok \in BOOLEAN :
           OpenAIProxy(body, ok) =>
               /\ UNCHANGED transfer
               /\ body \in {"object_model", "object"}
                      => CaptureSent(body) /\ StubReply(body)
               /\ body = "array"
                      => CaptureSent(body) /\ ev'.reply.status = 500
               /\ body = "invalid"
                      => ev'.sent = <<>> /\ ev'.reply.status = 500
      ]_vars

\* A captured request with a model was queued and answered with the stub.
C6_Witness ==
    /\ ev.op = "openai_proxy"
    /\ ev.reply.kind = "completion"
    /\ ev.reply.model = "m"
    /\ Len(ev.sent) = 1
    /\ command_queue # <<>>
    /\ command_queue[Len(command_queue)] = ev.sent[1].cmd

\* C7: choices 1 to 5 send at most one command, named list, download,
\* upload, delete, mkdir, with the operator's path; list defaults to ".";
\* download, delete and mkdir with an empty path send nothing and change no
\* server state.
OneCommand(name, path) ==
    /\ Len(ev'.sent) = 1
    /\ ev'.sent[1].cmd.command = name
    /\ ev'.sent[1].cmd.path = path
AtMostOne(name, path) == ev'.sent = <<>> \/ OneCommand(name, path)
Nothing == ev'.sent = <<>> /\ UNCHANGED server

C7_MenuCommands ==
    [][\A path \in OperatorPaths, ok \in BOOLEAN :
           /\ Choice1(path, ok) =>
                  OneCommand("list", IF path = NoPath THEN DotPath ELSE path)
           /\ Choice2(path, ok) =>
                  IF path = NoPath THEN Nothing
                  ELSE OneCommand("download", path)
           /\ \A local \in BOOLEAN :
                  Choice3(local, path, ok) => AtMostOne("upload", path)
           /\ \A confirm \in Confirms :
                  Choice4(path, confirm, ok) =>
                      IF path = NoPath THEN Nothing
                      ELSE AtMostOne("delete", path)
           /\ Choice5(path, ok) =>
                  IF path = NoPath THEN Nothing
                  ELSE OneCommand("mkdir", path)
      ]_vars

\* Choice 1 with an empty answer sent list with path ".".
C7_Witness ==
    /\ ev.op = "menu_choice"
    /\ Len(ev.sent) = 1
    /\ ev.sent[1].cmd = CmdPath("list", DotPath)

\* C8: delete, upload_all and upload_list are sent or queued only by a
\* choice 4 or 8 the operator confirmed with "yes" in any case; any other
\* answer sends nothing and leaves command_queue, upload_file_queue and
\* upload_in_progress unchanged.
C8_Confirmed ==
    [][/\ \A k \in 1..Len(ev'.sent) :
              ev'.sent[k].cmd.command \in Destructive =>
                  \E confirm \in YesAnswers, ok \in BOOLEAN :
                      \/ \E path \in OperatorPaths :
                             Choice4(path, confirm, ok)
                      \/ \E dir \in LocalDirs : Choice8(dir, confirm, ok)
       /\ \A confirm \in Confirms \ YesAnswers, ok \in BOOLEAN :
              (\/ \E path \in OperatorPaths : Choice4(path, confirm, ok)
               \/ \E dir \in LocalDirs : Choice8(dir, confirm, ok))
                  => /\ ev'.sent = <<>>
                     /\ UNCHANGED <<command_queue, upload_file_queue,
                                    upload_in_progress>>
      ]_vars

\* A confirmed delete is waiting in the queue.
C8_Witness ==
    /\ ev.op = "menu_choice"
    /\ Len(ev.sent) = 1
    /\ ev.sent[1].cmd = CmdPath("delete", OperatorPath)
    /\ command_queue # <<>>
    /\ command_queue[Len(command_queue)] = CmdPath("delete", OperatorPath)

\* C9: at stream_complete the received count that is printed equals the
\* number of stream files written since the download began, and the
\* lost-file warning is raised whenever fewer were written than the
\* device's success_count.
C9_ReceivedIsSaved ==
    [][\A m \in Responses :
           (HttpResponse(m) /\ Get(m, "stream_complete", FALSE)
                /\ Get(m, "status", "None") = "ok") =>
               /\ ev'.received = saved_since_start
               /\ saved_since_start < Get(m, "success_count",
                                          Get(m, "total", 0))
                      => ev'.note = "lost_warning"
      ]_vars

\* C10: once a streaming download or upload has started, with a device that
\* keeps polling and answers every command (ok or error), both flags
\* eventually are False again.
C10_TransferCompletes ==
    (download_in_progress \/ upload_in_progress)
        ~> (~download_in_progress /\ ~upload_in_progress)

\* C11: in an HTTP streaming upload /poll hands out upload_list before it
\* answers upload_complete for that upload: when upload_complete is answered
\* no upload_list is still waiting in command_queue.
C11_ListFirst ==
    [][(ev'.op = "poll" /\ ev'.reply.body = Cmd("upload_complete"))
          => \A k \in 1..Len(command_queue) :
                 command_queue[k].command # "upload_list"
      ]_vars

\* C12: /poll answers upload_complete only when upload_in_progress is true
\* and the upload dictionary is empty; that poll sets upload_in_progress to
\* False and leaves command_queue alone.  Once per upload: only that answer
\* ends an upload, only a new upload_list begins one, and with a device that
\* polls and fetches the answer does come.
C12_UploadComplete ==
    /\ [][(ev'.op = "poll" /\ ev'.reply.body = Cmd("upload_complete"))
             => /\ upload_in_progress
                /\ upload_file_queue = DictOf({})
                /\ ~upload_in_progress'
                /\ command_queue' = command_queue
         ]_vars
    /\ [][(upload_in_progress /\ ~upload_in_progress')
             => (ev'.op = "poll" /\ ev'.reply.body = Cmd("upload_complete"))
         ]_vars
    /\ [][(~upload_in_progress /\ upload_in_progress')
             => /\ ev'.op = "menu_choice"
                /\ Len(ev'.sent) = 1
                /\ ev'.sent[1].cmd.command = "upload_list"
         ]_vars
    /\ upload_in_progress ~> ~upload_in_progress

\* upload_complete was answered while a command was waiting in the queue.
C12_Witness ==
    /\ ev.op = "poll"
    /\ ev.reply.body = Cmd("upload_complete")
    /\ ~upload_in_progress
    /\ command_queue # <<>>

\* C13: /fetch_file serves each file of the upload at most once: a path in
\* the dictionary is answered with status 200, removed, and remaining is the
\* number of files left; no path or no dictionary is answered 400, an unknown
\* or served path 404, both leaving the upload file queue unchanged.  Paths
\* enter the dictionary only when choice 8 starts an upload.
C13_FetchOnce ==
    [][/\ \A path \in DevicePaths \cup {NoPath} :
              HttpFetchFile(path) =>
                  IF path = NoPath \/ ~upload_file_queue.isdict
                  THEN /\ ev'.reply.status = 400
                       /\ upload_file_queue' = upload_file_queue
                  ELSE IF path \in upload_file_queue.paths
                  THEN /\ ev'.reply.status = 200
                       /\ ev'.reply.path = path
                       /\ upload_file_queue' =
                              DictOf(upload_file_queue.paths \ {path})
                       /\ ev'.reply.remaining =
                              Cardinality(upload_file_queue.paths) - 1
                  ELSE /\ ev'.reply.status = 404
                       /\ upload_file_queue' = upload_file_queue
       /\ ~(upload_file_queue'.paths \subseteq upload_file_queue.paths)
              => ev'.op = "menu_choice"
      ]_vars

\* The first of two listed files was served, one is left.
C13_Witness ==
    /\ ev.op = "fetch_file"
    /\ ev.reply.status = 200
    /\ ev.reply.remaining = 1
    /\ upload_file_queue.isdict
    /\ Cardinality(upload_file_queue.paths) = 1
    /\ ev.reply.path \notin upload_file_queue.paths

\* C14: in the final tally of the compatibility download success_count +
\* fail_count is the number of listed files, and a file is counted as a
\* success only if a data response for its own path arrived within its wait
\* and was saved under the compatibility directory.
C14_Tally ==
    [][/\ ev'.note = "tally"
              => success_count' + fail_count' = Len(file_list)
       /\ success_count' = success_count + 1 => own_response = "saved"
      ]_vars

\* C15: download_all_compatible is left only through its finally block
\* (list timeout, no or empty list, exception, tally), which leaves
\* compatible_download_in_progress False and compatible_file_list,
\* compatible_download_event and stream_backup_dir None; a single-file
\* response that comes later is written by the ordinary path into downloads/.
InCompat == {"list_wait", "file_wait"}
C16_EmptyList ==
    [][(/\ menu_pc = "list_wait"
        /\ compatible_file_list = TheList(<<>>)
        /\ ev'.op = "compatible_end")
          => (ev'.note = "empty_directory" /\ ev'.sent = <<>>)
      ]_vars

\* C17: a status-ok response with stream_complete sets download_in_progress
\* False, stream_backup_dir None, download_file_count and
\* download_expected_total 0 and writes no file, also when it carries path,
\* data, index or files.
Completions ==
    {m \in Responses : /\ Get(m, "status", "None") = "ok"
                       /\ Get(m, "stream_complete", FALSE)}
C17_Completion ==
    [][\A m \in Completions :
           HttpResponse(m)
               => /\ ~download_in_progress'
                  /\ stream_backup_dir' = NoDir
                  /\ download_file_count' = 0
                  /\ download_expected_total' = 0
                  /\ ev'.wrote = <<>>
                  /\ ev'.note \in CompleteNotes
                  /\ UNCHANGED <<dir_seq, command_queue, upload_file_queue,
                                 upload_in_progress>>
      ]_vars

\* A completion ended a streaming download of which files had been saved.
C17_Witness ==
    /\ ev.op = "http_response"
    /\ ev.note \in CompleteNotes
    /\ ev.received > 0
    /\ dir_seq > 0
    /\ stream_backup_dir = NoDir
    /\ ~download_in_progress
    /\ download_file_count = 0

\* C18: the device counts as connected exactly when device_connection is set
\* or the last poll is less than 10 s old; while it is not connected the menu
\* loop accepts no choice, so no operator command is sent or queued.
C18_ConnectedGate ==
    [][(ev'.op = "menu_choice" /\ ev'.sent # <<>>)
          => (device_connection # NoConn \/ last_poll_time = "fresh")
      ]_vars

\* C19: while download_in_progress or upload_in_progress is true the menu
\* loop stays at its top and accepts no choice: no step is a menu choice or
\* a step of the compatibility download, so no operator command is sent or
\* queued and no second bulk transfer begins.
MenuOps == {"menu_choice", "menu_exit", "compatible_request",
            "compatible_end"}
C19_TransferGate ==
    [][(download_in_progress \/ upload_in_progress)
          => /\ menu_pc = "loop"
             /\ menu_pc' = "loop"
             /\ ev'.op \notin MenuOps
             /\ ~compatible_download_in_progress'
             /\ download_in_progress' => download_in_progress
             /\ upload_in_progress' => upload_in_progress
      ]_vars

\* The loop found a streaming download under way and went round again.
C19_Witness ==
    /\ download_in_progress
    /\ ev.op = "menu_loop"
    /\ ev.note = "downloading"
    /\ menu_pc = "loop"

\* C20: the step in which a WebSocket connection begins sends ping to that
\* connection and processes no message; messages of a connection are
\* processed only while its handler runs, hence after its ping; the step in
\* which a connection ends leaves device_connection None.
C20_PingFirst ==
    [][\A c \in Conns :
           /\ (c \notin ws_running /\ c \in ws_running')
                  => /\ ev'.op = "ws_connect"
                     /\ Len(ev'.sent) = 1
                     /\ ev'.sent[1].cmd = Cmd("ping")
                     /\ ev'.sent[1].via = "ws"
                     /\ ev'.sent[1].conn = c
                     /\ UNCHANGED <<transfer, history>>
           /\ \A m \in StatusMsgs : WsMessage(c, m) => c \in ws_running
           /\ (c \in ws_running /\ c \notin ws_running')
                  => device_connection' = NoConn
      ]_vars

\* A second connection came in while the first was open and got its ping.
C20_Witness ==
    /\ ev.op = "ws_connect"
    /\ Cardinality(ws_running) = 2
    /\ Len(ev.sent) = 1
    /\ ev.sent[1].cmd = Cmd("ping")
    /\ ev.sent[1].conn = device_connection

\* C21: while a compatibility download is in progress stream_backup_dir stays
\* the directory made at its start, whatever responses arrive, and every
\* single-file data response is written under that directory.
C21_CompatDirStable ==
    [][(compatible_download_in_progress /\ compatible_download_in_progress')
          => /\ stream_backup_dir.kind = "compatible"
             /\ stream_backup_dir' = stream_backup_dir
             /\ \A p \in DevicePaths :
                    HttpResponse(SingleFile(p, DataOk))
                        => ev'.wrote = <<Write(stream_backup_dir, p)>>
      ]_vars

\* C22: a response whose status is not "ok" (or is missing) changes no
\* server state and writes no file, whatever else it carries.
ErrorResponses == {m \in Responses : Get(m, "status", "None") # "ok"}
C22_ErrorFrame ==
    [][\A m \in ErrorResponses :
           HttpResponse(m)
               => /\ UNCHANGED <<server, ws_running, menu, history>>
                  /\ ev'.wrote = <<>>
                  /\ ev'.note = "error"
      ]_vars

\* An error response came in during a streaming download and changed nothing.
C22_Witness ==
    /\ ev.op = "http_response"
    /\ ev.note = "error"
    /\ download_in_progress
    /\ stream_backup_dir # NoDir

\* C23: when websocket.send() fails send_command returns False and the
\* command is dropped: one attempt, nothing appended to command_queue,
\* device_connection and the transfer state as they were.
Dropped(command, conn) ==
    /\ ev'.sent = <<[cmd |-> command, via |-> "ws", conn |-> conn,
                     ret |-> FALSE]>>
    /\ command_queue' = command_queue
    /\ device_connection' = conn
    /\ UNCHANGED transfer
C23_SendFailure ==
    [][/\ \A c \in Conns :
              WsConnect(c, FALSE) => Dropped(Cmd("ping"), c)
       /\ \A path \in OperatorPaths :
              (Choice1(path, FALSE) /\ device_connection # NoConn)
                  => Dropped(CmdPath("list", IF path = NoPath THEN DotPath
                                             ELSE path),
                             device_connection)
       /\ (Choice9(FALSE) /\ device_connection # NoConn)
              => Dropped(Cmd("ping"), device_connection)
      ]_vars

\* A list command failed on the WebSocket and is in no queue.
C23_Witness ==
    /\ ev.op = "menu_choice"
    /\ Len(ev.sent) = 1
    /\ ev.sent[1].via = "ws"
    /\ ~ev.sent[1].ret
    /\ ev.sent[1].cmd.command = "list"
    /\ device_connection = ev.sent[1].conn
    /\ \A k \in 1..Len(command_queue) : command_queue[k] # ev.sent[1].cmd

\* ------------------------------------------------------- where files land
\* The directory a save path writes under, relative to the working directory.
DirName(d) ==
    IF d.kind = "downloads" THEN <<"downloads">>
    ELSE <<"downloads", "Documents_" \o d.kind \o "_" \o ToString(d.n)>>

\* The file the operating system opens for the components p taken from the
\* directory `at`: pathlib's base / path lets an absolute path replace the
\* base, and ".." steps to the parent.
RECURSIVE Resolve(_, _)
Resolve(at, p) ==
    IF p = <<>> THEN at
    ELSE LET c == Head(p)
             next == IF c = "/" THEN <<"/">>
                     ELSE IF c = "." THEN at
                     ELSE IF c = ".."
                          THEN IF at = <<>> \/ at[Len(at)] = ".."
                                   THEN Append(at, "..")
                               ELSE IF at = <<"/">> THEN at
                               ELSE SubSeq(at, 1, Len(at) - 1)
                     ELSE Append(at, c)
         IN  Resolve(next, Tail(p))
LocalPath(w) == Resolve(DirName(w.base), w.path)

\* Paths a device may name: up and out of the directory, and absolute.
TraversalPath == <<"..", "..", "x">>
AbsolutePath == <<"/", "x">>
HostilePaths == {PathOf(1), <<"sub", "..", "a">>, TraversalPath, AbsolutePath}
PathMsgs ==
    {StreamFile(p, DataOk, 1, MaxIndex) : p \in HostilePaths}
    \cup {SingleFile(p, DataOk) : p \in HostilePaths}
    \cup {[Msg({"status", "files"}) EXCEPT !.files = <<FileInfo(p, DataOk)>>] :
             p \in HostilePaths}
    \cup {Complete(MaxIndex, MaxIndex)}

\* The four save paths fed with such paths: bulk, streaming, single file, and
\* the compatibility directory of choice 7.
NextPaths ==
    \/ WsLink({1})
    \/ HttpIn(PathMsgs)
    \/ MenuLoop
    \/ \E ok \in BOOLEAN : Choice7(ok)
    \/ CompatListTimeout
    \/ HttpPoll

SpecPaths == Init /\ [][NextPaths]_vars

\* C24: every file written by the bulk, streaming, compatibility and
\* single-file save paths lies inside the directory of its transfer under
\* downloads/, whatever relative or absolute path the device names.
Inside(w) ==
    LET dir == DirName(w.base)
        loc == LocalPath(w)
    IN  Len(loc) > Len(dir) /\ SubSeq(loc, 1, Len(dir)) = dir
C24_WritesInside ==
    [][\A k \in 1..Len(ev'.wrote) : Inside(ev'.wrote[k])]_vars

\* C25: queued commands leave command_queue only in a /poll step, one at a
\* time from the head; a WebSocket connect or disconnect, a device response
\* and /fetch_file leave command_queue as it was; and /poll hands out the
\* head of the queue even while a WebSocket connection is set.
KeepsQueued(old, new) ==
    Len(new) >= Len(old) /\ SubSeq(new, 1, Len(old)) = old
C25_OnlyPollRemoves ==
    [][/\ ~KeepsQueued(command_queue, command_queue')
              => /\ ev'.op = "poll"
                 /\ command_queue' = Tail(command_queue)
       /\ ev'.op \in {"ws_connect", "ws_disconnect", "ws_message",
                      "http_response", "fetch_file"}
              => command_queue' = command_queue
       /\ (HttpPoll /\ device_connection # NoConn /\ command_queue # <<>>
               /\ ~UploadFinished)
              => /\ ev'.reply.body = Head(command_queue)
                 /\ command_queue' = Tail(command_queue)
      ]_vars
C25_Witness ==
    /\ ev.op = "poll"
    /\ device_connection # NoConn
    /\ ev.reply.body.command \notin {"none", "upload_complete"}

\* C26: in every reachable state upload_in_progress implies that
\* upload_file_queue is a dict; upload_in_progress becomes true only in menu
\* choice 8 and download_in_progress only in menu choice 6, each taken while
\* no WebSocket connection is set.
C26_BulkFlags ==
    /\ [](upload_in_progress => upload_file_queue.isdict)
    /\ [][/\ (~upload_in_progress /\ upload_in_progress')
                 => /\ device_connection = NoConn
                    /\ \E dir \in LocalDirs, confirm \in Confirms,
                          ok \in BOOLEAN : Choice8(dir, confirm, ok)
          /\ (~download_in_progress /\ download_in_progress')
                 => /\ device_connection = NoConn
                    /\ \E ok \in BOOLEAN : Choice6(ok)
         ]_vars
C26_Witness ==
    /\ ev.op = "menu_choice"
    /\ upload_in_progress
    /\ upload_file_queue.isdict
    /\ upload_file_queue.paths # {}
    /\ device_connection = NoConn
    /\ Len(ev.sent) = 1
    /\ ev.sent[1].cmd.command = "upload_list"
====
